---- MODULE Spec2Model ----
(***************************************************************************)
(* Model of streamlit-app/app.py: the response normaliser                  *)
(* normalize_response and the "Run Models" button handler.                 *)
(*                                                                         *)
(* Python values are tagged records [t, v]:                                *)
(*   "null" None, "bool" True/False, "num" an int, "str" a str,            *)
(*   "list" a list (sequence of values),                                   *)
(*   "dict" a dict (sequence of [k, v] entries in insertion order, the     *)
(*          keys pairwise distinct, as json.loads builds it).              *)
(* JSON numbers are modelled by integers only; strings by strings that     *)
(* need no escaping in JSON or in repr().                                  *)
(***************************************************************************)
EXTENDS Integers, Sequences, FiniteSets, TLC

VARIABLES
    pc,               \* where the script run stands
    run,              \* the "Run Models" button was pressed
    WEBHOOK_URL,      \* the configured endpoint
    input_type,       \* the radio choice
    uploaded_file,    \* the uploaded file, NoFile for None
    request,          \* the POST issued by this run, NoRequest before it
    resp,             \* the response of the POST, NoResp before it returns
    body,             \* the value handed to normalize_response
    items,            \* what normalize_response returned
    page,             \* st.error / st.warning messages written to the page
    status_box,       \* the status placeholder
    results_box,      \* the results placeholder
    posts,            \* requests.post calls issued by this run
    normalize_calls   \* normalize_response calls made by this run

vars == <<pc, run, WEBHOOK_URL, input_type, uploaded_file, request, resp, body, items,
          page, status_box, results_box, posts, normalize_calls>>

-----------------------------------------------------------------------------
(* Python values *)

JNull == [t |-> "null", v |-> 0]
JBool(b) == [t |-> "bool", v |-> b]
JNum(n) == [t |-> "num", v |-> n]
JStr(s) == [t |-> "str", v |-> s]
JList(s) == [t |-> "list", v |-> s]
JDict(s) == [t |-> "dict", v |-> s]
Entry(key, val) == [k |-> key, v |-> val]

\* isinstance(x, dict), isinstance(x, list)
IsDict(x) == x.t = "dict"
IsList(x) == x.t = "list"

\* key in d
HasKey(d, key) == \E i \in 1..Len(d.v) : d.v[i].k = key

\* d[key], for a key that is present
DictItem(d, key) == d.v[CHOOSE i \in 1..Len(d.v) : d.v[i].k = key].v

\* d.get(key, default)
DictGetDefault(d, key, default) == IF HasKey(d, key) THEN DictItem(d, key) ELSE default

\* d.get(key): None when the key is absent
DictGet(d, key) == DictGetDefault(d, key, JNull)

\* bool(x): None, False, 0, "", [] and {} are falsy
Truthy(x) ==
    CASE x.t = "null" -> FALSE
      [] x.t = "bool" -> x.v
      [] x.t = "num" -> x.v # 0
      [] x.t = "str" -> x.v # ""
      [] x.t = "list" -> Len(x.v) > 0
      [] x.t = "dict" -> Len(x.v) > 0

\* a or b
PyOr(a, b) == IF Truthy(a) THEN a ELSE b

-----------------------------------------------------------------------------
(* str(), repr() and json.dumps(x, indent=2) *)

RECURSIVE PyRepr(_), PyReprItems(_, _), PyReprEntries(_, _)

\* repr(x); str(x) differs from it only for a str
PyRepr(x) ==
    CASE x.t = "null" -> "None"
      [] x.t = "bool" -> (IF x.v THEN "True" ELSE "False")
      [] x.t = "num" -> ToString(x.v)
      [] x.t = "str" -> "'" \o x.v \o "'"
      [] x.t = "list" -> "[" \o PyReprItems(x.v, 1) \o "]"
      [] x.t = "dict" -> "{" \o PyReprEntries(x.v, 1) \o "}"

PyReprItems(s, i) ==
    IF i > Len(s) THEN ""
    ELSE PyRepr(s[i]) \o (IF i < Len(s) THEN ", " ELSE "") \o PyReprItems(s, i + 1)

PyReprEntries(s, i) ==
    IF i > Len(s) THEN ""
    ELSE "'" \o s[i].k \o "': " \o PyRepr(s[i].v)
         \o (IF i < Len(s) THEN ", " ELSE "") \o PyReprEntries(s, i + 1)

\* str(x)
PyStr(x) == IF x.t = "str" THEN x.v ELSE PyRepr(x)

RECURSIVE Pad(_)
\* the indentation of nesting level lvl under indent=2
Pad(lvl) == IF lvl = 0 THEN "" ELSE "  " \o Pad(lvl - 1)

RECURSIVE JsonDumps(_, _), JsonItems(_, _, _), JsonEntries(_, _, _)

\* json.dumps(x, indent=2), x written at nesting level lvl
JsonDumps(x, lvl) ==
    CASE x.t = "null" -> "null"
      [] x.t = "bool" -> (IF x.v THEN "true" ELSE "false")
      [] x.t = "num" -> ToString(x.v)
      [] x.t = "str" -> "\"" \o x.v \o "\""
      [] x.t = "list" ->
            IF Len(x.v) = 0 THEN "[]"
            ELSE "[\n" \o JsonItems(x.v, 1, lvl + 1) \o "\n" \o Pad(lvl) \o "]"
      [] x.t = "dict" ->
            IF Len(x.v) = 0 THEN "{}"
            ELSE "{\n" \o JsonEntries(x.v, 1, lvl + 1) \o "\n" \o Pad(lvl) \o "}"

JsonItems(s, i, lvl) ==
    IF i > Len(s) THEN ""
    ELSE Pad(lvl) \o JsonDumps(s[i], lvl)
         \o (IF i < Len(s) THEN ",\n" ELSE "") \o JsonItems(s, i + 1, lvl)

JsonEntries(s, i, lvl) ==
    IF i > Len(s) THEN ""
    ELSE Pad(lvl) \o "\"" \o s[i].k \o "\": " \o JsonDumps(s[i].v, lvl)
         \o (IF i < Len(s) THEN ",\n" ELSE "") \o JsonEntries(s, i + 1, lvl)

-----------------------------------------------------------------------------
(* normalize_response *)

\* the record appended to out
Record(m, r, l) == [model |-> m, response |-> r, latency |-> l]

\* a slip: "text" tried before "response"
response_text_swapped(val) ==
    PyOr(PyOr(DictGet(val, "text"), DictGet(val, "response")),
         JStr(JsonDumps(val, 0)))

\* val.get("response") or val.get("text") or json.dumps(val, indent=2)
response_text(val) ==
    PyOr(PyOr(DictGet(val, "response"), DictGet(val, "text")),
         JStr(JsonDumps(val, 0)))

\* a slip: "latencyMs" tried before "latency"
latency_swapped(val) ==
    PyOr(PyOr(PyOr(DictGet(val, "latencyMs"), DictGet(val, "latency")),
              DictGet(val, "latency_ms")),
         JNum(0))

\* val.get("latency") or val.get("latencyMs") or val.get("latency_ms") or 0
latency(val) ==
    PyOr(PyOr(PyOr(DictGet(val, "latency"), DictGet(val, "latencyMs")),
              DictGet(val, "latency_ms")),
         JNum(0))

\* a slip: the envelope is never unwrapped
Unwrap_never(b) == b

\* if isinstance(body, dict) and "responses" in body: body = body["responses"]
Unwrap(b) == IF IsDict(b) /\ HasKey(b, "responses") THEN DictItem(b, "responses") ELSE b

\* one iteration of "for model, val in body.items()"
MappingRecord(e) ==
    IF IsDict(e.v)
    THEN Record(JStr(e.k), response_text(e.v), latency(e.v))
    ELSE Record(JStr(e.k), JStr(PyStr(e.v)), JNum(0))

\* item.get("model", "unknown")
ItemModel(item) == DictGetDefault(item, "model", JStr("unknown"))

\* one iteration of "for item in body"
ListRecord(item) ==
    IF IsDict(item)
    THEN Record(ItemModel(item), response_text(item), latency(item))
    ELSE Record(JStr("result"), JStr(PyStr(item)), JNum(0))

\* the fallback for a simple value
FallbackRecord(b) == Record(JStr("result"), JStr(PyStr(b)), JNum(0))

\* a slip: the mapping is walked in reverse
normalize_response_reversed(b0) ==
    LET b == Unwrap(b0) IN
    IF IsDict(b) THEN [i \in 1..Len(b.v) |-> MappingRecord(b.v[Len(b.v) + 1 - i])]
    ELSE IF IsList(b) THEN [i \in 1..Len(b.v) |-> ListRecord(b.v[i])]
    ELSE <<FallbackRecord(b)>>

\* a slip: the fallback for a simple value is missing
normalize_response_no_fallback(b0) ==
    LET b == Unwrap(b0) IN
    IF IsDict(b) THEN [i \in 1..Len(b.v) |-> MappingRecord(b.v[i])]
    ELSE IF IsList(b) THEN [i \in 1..Len(b.v) |-> ListRecord(b.v[i])]
    ELSE <<>>

normalize_response(b0) ==
    LET b == Unwrap(b0) IN
    IF IsDict(b) THEN [i \in 1..Len(b.v) |-> MappingRecord(b.v[i])]
    ELSE IF IsList(b) THEN [i \in 1..Len(b.v) |-> ListRecord(b.v[i])]
    ELSE <<FallbackRecord(b)>>

-----------------------------------------------------------------------------
(* The inputs normalize_response is applied to *)

\* the most fields a per-model mapping of the inputs carries
MaxFields == 2
\* the most entries a top-level list or mapping of the inputs carries
MaxLen == 2

RECURSIVE KeySeqsOfLen(_, _)
KeySeqsOfLen(K, n) ==
    IF n = 0 THEN {<<>>}
    ELSE {Append(p[1], p[2]) :
            p \in {q \in KeySeqsOfLen(K, n - 1) \X K :
                     \A i \in 1..Len(q[1]) : q[1][i] # q[2]}}

\* the sequences of at most n pairwise distinct keys of K, in every order
KeySeqs(K, n) == UNION {KeySeqsOfLen(K, k) : k \in 0..n}

\* the dict with the keys ks and the values vs, in that order
MakeDict(ks, vs) == JDict([i \in 1..Len(ks) |-> Entry(ks[i], vs[i])])

\* {"responses": x}
Wrap(x) == JDict(<<Entry("responses", x)>>)

\* x, or x in the n8n envelope
Enveloped(wrapped, x) == IF wrapped THEN Wrap(x) ELSE x

Scalars ==
    {JNull, JBool(TRUE), JBool(FALSE), JNum(0), JNum(42), JStr(""), JStr("plain string")}

\* the fields normalize_response reads from a per-model mapping
FieldKeys == {"response", "text", "latency", "latencyMs", "latency_ms", "model"}

FieldVals ==
    {JNull, JBool(TRUE), JNum(0), JNum(120), JNum(-3), JStr(""), JStr("hi"),
     JList(<<JNum(0)>>), JDict(<<Entry("text", JStr("hi"))>>)}

ModelKeys == {"gpt4o", "whisper", "responses", ""}

Elems ==
    {JStr("hello"), JNum(7), JNull, JList(<<JStr("a"), JNull>>),
     JDict(<<Entry("response", JStr("hi")), Entry("latency", JNum(120))>>),
     JDict(<<Entry("model", JStr("w")), Entry("text", JStr("hello")),
             Entry("latencyMs", JNum(50))>>)}

\* b is a simple value
ScalarInput(b, wrapped) == \E x \in Scalars : b = Enveloped(wrapped, x)

\* b is one per-model mapping of at most MaxFields recognised fields, in every key
\* order, as the only element of a list or as the only value of a mapping
WideInput(b, wrapped) ==
    \E ks \in KeySeqs(FieldKeys, MaxFields) :
        \E vs \in [1..Len(ks) -> FieldVals] :
            \/ b = Enveloped(wrapped, JList(<<MakeDict(ks, vs)>>))
            \/ b = Enveloped(wrapped, JDict(<<Entry("gpt4o", MakeDict(ks, vs))>>))

\* b is a list of at most MaxLen elements
ListInput(b, wrapped) ==
    \E n \in 0..MaxLen :
        \E vs \in [1..n -> Elems] : b = Enveloped(wrapped, JList(vs))

\* b is a mapping of at most MaxLen entries, in every key order
MappingInput(b, wrapped) ==
    \E ks \in KeySeqs(ModelKeys, MaxLen) :
        \E vs \in [1..Len(ks) -> Elems] : b = Enveloped(wrapped, MakeDict(ks, vs))

\* the inputs: each of the shapes, bare and in the envelope
Input(b) ==
    \E wrapped \in BOOLEAN :
        \/ ScalarInput(b, wrapped)
        \/ WideInput(b, wrapped)
        \/ ListInput(b, wrapped)
        \/ MappingInput(b, wrapped)

-----------------------------------------------------------------------------
(* State shared by the two specifications *)

NoFile == [name |-> ""]
NoRequest == [fn |-> "", inputType |-> "", filename |-> "", timeout |-> 0]
NoResp == [status_code |-> 0, text |-> ""]
EmptyBox == [kind |-> "empty", text |-> "", cards |-> <<>>]

\* normalize_response applied to one input
InitNorm ==
    /\ pc = "call"
    /\ Input(body)
    /\ items = <<>>
    /\ run = FALSE
    /\ WEBHOOK_URL = ""
    /\ input_type = "text"
    /\ uploaded_file = NoFile
    /\ request = NoRequest
    /\ resp = NoResp
    /\ page = <<>>
    /\ status_box = EmptyBox
    /\ results_box = EmptyBox
    /\ posts = 0
    /\ normalize_calls = 0

Call ==
    /\ pc = "call"
    /\ items' = normalize_response(body)
    /\ normalize_calls' = normalize_calls + 1
    /\ pc' = "returned"
    /\ UNCHANGED <<run, WEBHOOK_URL, input_type, uploaded_file, request, resp, body,
                   page, status_box, results_box, posts>>

NextNorm == Call

SpecNorm == InitNorm /\ [][NextNorm]_vars

-----------------------------------------------------------------------------
(* The "Run Models" button handler *)

DefaultWebhook == "https://sp12012012.app.n8n.cloud/webhook-test/multi"

\* N8N_WEBHOOK_URL may be unset (the fallback applies) or set, also to ""
WebhookUrls == {DefaultWebhook, ""}

InputTypes == {"text", "image", "audio"}

\* the file uploader is shown for image and audio only
Uploads(it) ==
    CASE it = "text" -> {NoFile}
      [] it = "image" -> {NoFile, [name |-> "cat.png"]}
      [] it = "audio" -> {NoFile, [name |-> "clip.mp3"]}

\* JSON values the webhook answers with
Bodies ==
    {JDict(<<Entry("gpt4o", JDict(<<Entry("response", JStr("hi")),
                                    Entry("latency", JNum(120))>>))>>),
     Wrap(JList(<<JDict(<<Entry("model", JStr("w")), Entry("text", JStr("hello")),
                          Entry("latencyMs", JNum(50))>>)>>)),
     JDict(<<Entry("gpt4o", JStr("hello")),
             Entry("whisper", JDict(<<Entry("text", JStr("hi")),
                                      Entry("latency_ms", JNum(7))>>))>>),
     JList(<<JStr("a"), JDict(<<Entry("model", JStr("w"))>>)>>),
     JDict(<<>>), JList(<<>>), JStr("plain string"), JNum(42), JNull}

\* response texts: the JSON documents of Bodies and texts that are no JSON
Texts == {JsonDumps(v, 0) : v \in Bodies} \cup {"not found", "", "<html>Bad Gateway</html>"}

StatusCodes == {199, 200, 204, 299, 300, 404, 500}

Responses == [status_code : StatusCodes, text : Texts]

\* what requests.post raises: str(e) of a timeout or a connection failure
Failures == {"Read timed out.", "Connection refused"}

\* resp.json() succeeds
Decodable(text) == \E v \in Bodies : JsonDumps(v, 0) = text

\* try: body = resp.json()  except: body = {"raw": resp.text}
ResponseBody(r) ==
    IF Decodable(r.text)
    THEN CHOOSE v \in Bodies : JsonDumps(v, 0) = r.text
    ELSE JDict(<<Entry("raw", JStr(r.text))>>)

\* a slip: only 200 counts as success
IsSuccess_only_200(code) == code = 200

\* resp.status_code >= 200 and resp.status_code < 300
IsSuccess(code) == code >= 200 /\ code < 300

Box(kind, text) == [kind |-> kind, text |-> text, cards |-> <<>>]

\* one result card: the title, the latency line and the st.code block
Card(item) ==
    [title |-> PyStr(item.model),
     lat |-> "Latency: " \o PyStr(item.latency) \o " ms",
     code |-> item.response]

\* with results_box: "### Results" and one card per item
ResultCards(its) ==
    [kind |-> "cards", text |-> "### Results", cards |-> [i \in 1..Len(its) |-> Card(its[i])]]

\* the state a script run starts in, the widgets read
ScriptStart ==
    /\ pc' = "script"
    /\ run' \in BOOLEAN
    /\ WEBHOOK_URL' \in WebhookUrls
    /\ input_type' \in InputTypes
    /\ uploaded_file' \in Uploads(input_type')
    /\ request' = NoRequest
    /\ resp' = NoResp
    /\ body' = JNull
    /\ items' = <<>>
    /\ page' = <<>>
    /\ status_box' = EmptyBox
    /\ results_box' = EmptyBox
    /\ posts' = 0
    /\ normalize_calls' = 0

Init ==
    /\ pc = "script"
    /\ run \in BOOLEAN
    /\ WEBHOOK_URL \in WebhookUrls
    /\ input_type \in InputTypes
    /\ uploaded_file \in Uploads(input_type)
    /\ request = NoRequest
    /\ resp = NoResp
    /\ body = JNull
    /\ items = <<>>
    /\ page = <<>>
    /\ status_box = EmptyBox
    /\ results_box = EmptyBox
    /\ posts = 0
    /\ normalize_calls = 0

\* if run: is false, the script ends without entering the handler
NotPressed ==
    /\ pc = "script"
    /\ ~run
    /\ pc' = "done"
    /\ UNCHANGED <<run, WEBHOOK_URL, input_type, uploaded_file, request, resp, body, items,
                   page, status_box, results_box, posts, normalize_calls>>

\* if not WEBHOOK_URL: st.error(...); st.stop()
ConfigError ==
    /\ pc = "script"
    /\ run
    /\ WEBHOOK_URL = ""
    /\ page' = Append(page, [kind |-> "error",
                             text |-> "Webhook is not configured. Set N8N_WEBHOOK_URL."])
    /\ pc' = "stopped"
    /\ UNCHANGED <<run, WEBHOOK_URL, input_type, uploaded_file, request, resp, body, items,
                   status_box, results_box, posts, normalize_calls>>

\* the handler has passed the configuration check and entered the try block
Sending ==
    /\ pc = "script"
    /\ run
    /\ WEBHOOK_URL # ""
    /\ status_box' = Box("info", "Sending request...")

\* send_json / send_multipart: requests.post is called and blocks. Of the
\* payload the request keeps the input type and the file name; the prompt, the
\* selected models and the data URL of an image do not reach the response handler.
Post(fn, filename, timeout) ==
    /\ request' = [fn |-> fn, inputType |-> input_type, filename |-> filename,
                   timeout |-> timeout]
    /\ posts' = posts + 1
    /\ pc' = "posting"
    /\ UNCHANGED <<run, WEBHOOK_URL, input_type, uploaded_file, resp, body, items,
                   page, results_box, normalize_calls>>

\* st.warning(...); st.stop(): StopException is no Exception, the except clause lets it pass
Stop(text) ==
    /\ page' = Append(page, [kind |-> "warning", text |-> text])
    /\ pc' = "stopped"
    /\ UNCHANGED <<run, WEBHOOK_URL, input_type, uploaded_file, request, resp, body, items,
                   results_box, posts, normalize_calls>>

SendText ==
    /\ Sending
    /\ input_type = "text"
    /\ Post("send_json", "", 180)

AudioMissing ==
    /\ Sending
    /\ input_type = "audio"
    /\ uploaded_file = NoFile
    /\ Stop("Upload an audio file.")

\* a slip: the audio branch posts without looking at the upload
SendAudio_unchecked ==
    /\ Sending
    /\ input_type = "audio"
    /\ Post("send_multipart", uploaded_file.name, 300)

SendAudio ==
    /\ Sending
    /\ input_type = "audio"
    /\ uploaded_file # NoFile
    /\ Post("send_multipart", uploaded_file.name, 300)

ImageMissing ==
    /\ Sending
    /\ input_type = "image"
    /\ uploaded_file = NoFile
    /\ Stop("Upload an image.")

SendImage ==
    /\ Sending
    /\ input_type = "image"
    /\ uploaded_file # NoFile
    /\ Post("send_multipart", uploaded_file.name, 300)

\* the POST returned with a 2xx status (the elapsed time of the success message
\* is wall-clock and left out)
HandleSuccess(r) ==
    /\ pc = "posting"
    /\ IsSuccess(r.status_code)
    /\ resp' = r
    /\ body' = ResponseBody(r)
    /\ items' = normalize_response(body')
    /\ normalize_calls' = normalize_calls + 1
    /\ status_box' = Box("success", "Success")
    /\ results_box' = ResultCards(items')
    /\ pc' = "done"
    /\ UNCHANGED <<run, WEBHOOK_URL, input_type, uploaded_file, request, page, posts>>

\* the POST returned with any other status
HandleError(r) ==
    /\ pc = "posting"
    /\ ~IsSuccess(r.status_code)
    /\ resp' = r
    /\ status_box' = Box("error", "Error " \o ToString(r.status_code))
    /\ results_box' = Box("text", r.text)
    /\ pc' = "done"
    /\ UNCHANGED <<run, WEBHOOK_URL, input_type, uploaded_file, request, body, items,
                   page, posts, normalize_calls>>

\* requests.post raised: except Exception as e
RequestFailed(e) ==
    /\ pc = "posting"
    /\ status_box' = Box("error", "Request failed")
    /\ results_box' = Box("text", e)
    /\ pc' = "done"
    /\ UNCHANGED <<run, WEBHOOK_URL, input_type, uploaded_file, request, resp, body, items,
                   page, posts, normalize_calls>>

\* the next interaction runs the script again from the top
Rerun ==
    /\ pc \in {"done", "stopped"}
    /\ ScriptStart

Next ==
    \/ NotPressed
    \/ ConfigError
    \/ SendText
    \/ AudioMissing
    \/ SendAudio
    \/ ImageMissing
    \/ SendImage
    \/ \E r \in Responses : HandleSuccess(r)
    \/ \E r \in Responses : HandleError(r)
    \/ \E e \in Failures : RequestFailed(e)
    \/ Rerun

Spec == Init /\ [][Next]_vars

-----------------------------------------------------------------------------
(* Properties of normalize_response, checked under SpecNorm *)

Returned == pc = "returned"

\* the input after the one-level unwrap
Unwrapped == Unwrap(body)

\* the entry value or list element the i-th record is built from
Source(i) ==
    IF IsDict(Unwrapped) THEN Unwrapped.v[i].v
    ELSE IF IsList(Unwrapped) THEN Unwrapped.v[i]
    ELSE Unwrapped

\* body is {"responses": X} and nothing else
IsEnvelope(b) == IsDict(b) /\ Len(b.v) = 1 /\ b.v[1].k = "responses"
Inner(b) == b.v[1].v

RecordFields == {"model", "response", "latency"}
LatencyKeys == {"latency", "latencyMs", "latency_ms"}

\* C1 as stated: normalize_response({"responses": X}) equals normalize_response(X)
\* for every X, an X with a "responses" key of its own included.
C1_EnvelopeEquivalentForAnyX ==
    (Returned /\ IsEnvelope(body)) => items = normalize_response(Inner(body))

\* C1 amended: normalize_response({"responses": X}) equals normalize_response(X)
\* for every X that is not itself a mapping with a "responses" key.
C1_EnvelopeEquivalentOneLevel ==
    (Returned /\ IsEnvelope(body)
       /\ ~(IsDict(Inner(body)) /\ HasKey(Inner(body), "responses")))
    => items = normalize_response(Inner(body))

C1_Witness ==
    /\ Returned
    /\ IsEnvelope(body)
    /\ IsList(Inner(body))
    /\ Len(items) = 2
    /\ items[1].model = JStr("result")
    /\ items[2].model = JStr("w")

\* C2 as stated: the result is never empty and every record has the fields
\* model, response and latency.
C2_NonEmptyRecords ==
    Returned =>
        /\ Len(items) >= 1
        /\ \A i \in 1..Len(items) : DOMAIN items[i] = RecordFields

\* C2 amended: the result is empty exactly when the input, after the one-level
\* unwrap, is an empty mapping or an empty list; every record has the fields
\* model, response and latency.
C2_EmptyOnlyForEmptyCollection ==
    Returned =>
        /\ Len(items) = 0 <=> Unwrapped \in {JDict(<<>>), JList(<<>>)}
        /\ \A i \in 1..Len(items) : DOMAIN items[i] = RecordFields

C2_Witness ==
    /\ Returned
    /\ body = Wrap(JList(<<>>))
    /\ Len(items) = 0

\* C3: a mapping without a "responses" key gives one record per entry, the i-th
\* model being the i-th key; a list gives one record per element, the i-th built
\* from the i-th element.
C3_OneToOneInOrder ==
    Returned =>
        /\ (IsDict(body) /\ ~HasKey(body, "responses")) =>
              /\ Len(items) = Len(body.v)
              /\ \A i \in 1..Len(items) : items[i].model = JStr(body.v[i].k)
        /\ IsList(body) =>
              /\ Len(items) = Len(body.v)
              /\ \A i \in 1..Len(items) : items[i] = ListRecord(body.v[i])

C3_Witness ==
    /\ Returned
    /\ IsDict(body)
    /\ ~HasKey(body, "responses")
    /\ Len(body.v) = 2
    /\ body.v[1].k = "whisper"
    /\ body.v[2].k = "gpt4o"
    /\ items[1].model = JStr("whisper")

\* C4: the response of every record is a string.
C4_ResponseIsString ==
    Returned => \A i \in 1..Len(items) : items[i].response.t = "str"

\* C5: the latency of every record is a non-negative number, and it is 0 when
\* the source carries no numeric latency field.
C5_LatencyNonNegativeNumber ==
    Returned =>
        \A i \in 1..Len(items) :
            /\ items[i].latency.t = "num"
            /\ items[i].latency.v >= 0
            /\ (~IsDict(Source(i))
                \/ \A key \in LatencyKeys :
                      ~HasKey(Source(i), key) \/ DictItem(Source(i), key).t # "num")
               => items[i].latency = JNum(0)

\* C6: the model of every record is a non-empty string: the mapping key, or the
\* element's "model" value when present, or the sentinel "unknown" or "result".
C6_ModelNonEmptyString ==
    Returned =>
        \A i \in 1..Len(items) :
            /\ items[i].model.t = "str"
            /\ items[i].model.v # ""
            /\ IF IsDict(Unwrapped) THEN items[i].model = JStr(Unwrapped.v[i].k)
               ELSE IF IsDict(Source(i)) /\ HasKey(Source(i), "model")
                    THEN items[i].model = DictItem(Source(i), "model")
                    ELSE items[i].model \in {JStr("unknown"), JStr("result")}

\* the value of the first of the keys that is present, None when none is
RECURSIVE FirstPresent(_, _)
FirstPresent(val, keys) ==
    IF keys = <<>> THEN JNull
    ELSE IF HasKey(val, Head(keys)) THEN DictItem(val, Head(keys))
    ELSE FirstPresent(val, Tail(keys))

\* the first truthy value among the values of the keys, None when there is none
RECURSIVE FirstTruthy(_, _)
FirstTruthy(val, keys) ==
    IF keys = <<>> THEN JNull
    ELSE IF HasKey(val, Head(keys)) /\ Truthy(DictItem(val, Head(keys)))
         THEN DictItem(val, Head(keys))
    ELSE FirstTruthy(val, Tail(keys))

\* x, replaced by d when x is falsy
OrElse(x, d) == IF Truthy(x) THEN x ELSE d

\* C9 as stated: the latency of a per-model mapping is the value of the first
\* key present among latency, latencyMs, latency_ms, replaced by 0 when falsy; a
\* later key is consulted only when the earlier keys are absent.
C9_LatencyFirstPresentKey ==
    Returned =>
        \A i \in 1..Len(items) :
            IsDict(Source(i)) =>
                items[i].latency =
                    OrElse(FirstPresent(Source(i), <<"latency", "latencyMs", "latency_ms">>),
                           JNum(0))

\* C9 amended: the latency of a per-model mapping is the first truthy value among
\* the values of latency, latencyMs, latency_ms in that order, and 0 when none
\* of the three keys holds a truthy value; a later key is consulted when the
\* earlier keys are absent or hold falsy values.
C9_LatencyFirstTruthyKey ==
    Returned =>
        \A i \in 1..Len(items) :
            IsDict(Source(i)) =>
                items[i].latency =
                    OrElse(FirstTruthy(Source(i), <<"latency", "latencyMs", "latency_ms">>),
                           JNum(0))

C9_Witness ==
    /\ Returned
    /\ body = JDict(<<Entry("gpt4o", JDict(<<Entry("latencyMs", JNum(120)),
                                             Entry("latency", JNum(0))>>))>>)
    /\ items[1].latency = JNum(120)

\* C10 as stated: the response of a per-model mapping is the value of "response"
\* when that field exists, else the value of "text" when that exists, and the
\* indent-2 JSON of the mapping only when neither exists.
C10_ResponseFirstExistingField ==
    Returned =>
        \A i \in 1..Len(items) :
            IsDict(Source(i)) =>
                items[i].response =
                    IF HasKey(Source(i), "response") \/ HasKey(Source(i), "text")
                    THEN FirstPresent(Source(i), <<"response", "text">>)
                    ELSE JStr(JsonDumps(Source(i), 0))

\* C10 amended: the response of a per-model mapping is the value of "response"
\* when that field holds a truthy value, else the value of "text" when that
\* holds a truthy value, and the indent-2 JSON of the mapping when neither
\* field holds a truthy value.
C10_ResponseFirstTruthyField ==
    Returned =>
        \A i \in 1..Len(items) :
            IsDict(Source(i)) =>
                items[i].response =
                    OrElse(FirstTruthy(Source(i), <<"response", "text">>),
                           JStr(JsonDumps(Source(i), 0)))

C10_Witness ==
    /\ Returned
    /\ body = JList(<<JDict(<<Entry("text", JStr("hi")), Entry("response", JStr(""))>>)>>)
    /\ items[1].response = JStr("hi")

-----------------------------------------------------------------------------
(* Properties of the button handler, checked under Spec *)

\* C7: once the POST has returned the status code alone decides the outcome: a
\* status in 200..299 ends in success with the records of normalize_response
\* (applied to the decoded body, or to {"raw": text} when the body is no JSON)
\* rendered; any other status ends in failure showing the status code and the
\* raw body text, with normalize_response not called and no record rendered.
C7_StatusDecidesOutcome ==
    (pc = "done" /\ resp # NoResp) =>
        IF resp.status_code \in 200..299
        THEN /\ status_box.kind = "success"
             /\ normalize_calls = 1
             /\ body = (IF Decodable(resp.text)
                        THEN CHOOSE v \in Bodies : JsonDumps(v, 0) = resp.text
                        ELSE JDict(<<Entry("raw", JStr(resp.text))>>))
             /\ items = normalize_response(body)
             /\ results_box.kind = "cards"
             /\ Len(results_box.cards) = Len(items)
             /\ \A i \in 1..Len(items) :
                   /\ results_box.cards[i].title = PyStr(items[i].model)
                   /\ results_box.cards[i].code = items[i].response
        ELSE /\ status_box = Box("error", "Error " \o ToString(resp.status_code))
             /\ results_box = Box("text", resp.text)
             /\ normalize_calls = 0
             /\ items = <<>>

C7_Witness ==
    /\ pc = "done"
    /\ resp = [status_code |-> 204, text |-> "not found"]
    /\ status_box.kind = "success"
    /\ Len(results_box.cards) = 1
    /\ results_box.cards[1].title = "raw"
    /\ results_box.cards[1].code = JStr("not found")

\* the run meets a configuration error or a validation error
RunMustStop ==
    /\ run
    /\ \/ WEBHOOK_URL = ""
       \/ input_type \in {"image", "audio"} /\ uploaded_file = NoFile

\* C8: a run issues at most one POST, and none when the webhook URL is empty or
\* the input type is image or audio with no uploaded file: such a run stops with
\* no network call made and no result rendered.
C8_AtMostOnePost ==
    /\ posts <= 1
    /\ RunMustStop =>
          /\ posts = 0
          /\ pc \in {"script", "stopped"}
          /\ request = NoRequest
          /\ results_box = EmptyBox
          /\ normalize_calls = 0

C8_Witness ==
    /\ pc = "stopped"
    /\ WEBHOOK_URL # ""
    /\ input_type = "audio"
    /\ uploaded_file = NoFile
    /\ posts = 0
    /\ status_box = Box("info", "Sending request...")

====
